---- MODULE Spec2Model ----
(***************************************************************************)
(* Model of echoserver.py: a line-delimited JSON-RPC 2.0 server over       *)
(* stdin/stdout with two tools (echoserver, chesscomProfileFollowers).     *)
(*                                                                         *)
(* JSON values (and the Python values json.loads maps them to) are tagged  *)
(* records: null/None, bool, num (int), str, arr (list), obj (dict).  A    *)
(* dict is a TLA+ function from key strings to JSON values.                *)
(***************************************************************************)
EXTENDS Integers, Sequences, FiniteSets, TLC

VARIABLES pc, line, inlog, output, via, tools, inflight, calls, hres

vars == <<pc, line, inlog, output, via, tools, inflight, calls, hres>>

\* ------------------------------------------------------------------ bounds
\* number of (non-EOF) lines the input stream delivers in one session
MaxLines == 3

\* ------------------------------------------------------------ JSON values
None == [t |-> "null"]
Bool(b) == [t |-> "bool", b |-> b]
Num(n) == [t |-> "num", n |-> n]
Str(s) == [t |-> "str", s |-> s]
Arr(items) == [t |-> "arr", items |-> items]
Obj(f) == [t |-> "obj", f |-> f]
EmptyDict == [k \in {} |-> None]

\* Python truth value of a decoded JSON value (`if not data`)
Truthy(v) ==
    CASE v.t = "null" -> FALSE
      [] v.t = "bool" -> v.b
      [] v.t = "num"  -> v.n # 0
      [] v.t = "str"  -> v.s # ""
      [] v.t = "arr"  -> Len(v.items) > 0
      [] v.t = "obj"  -> DOMAIN v.f # {}

\* only dict has a .get attribute
HasGet(v) == v.t = "obj"

\* d.get(k, default) on a dict
dict_get(d, k, default) == IF k \in DOMAIN d.f THEN d.f[k] ELSE default

\* str(AttributeError) raised by v.get(...) on a value that is not a dict
NoGetMsg(v) ==
    CASE v.t = "null" -> "'NoneType' object has no attribute 'get'"
      [] v.t = "bool" -> "'bool' object has no attribute 'get'"
      [] v.t = "num"  -> "'int' object has no attribute 'get'"
      [] v.t = "str"  -> "'str' object has no attribute 'get'"
      [] v.t = "arr"  -> "'list' object has no attribute 'get'"
      [] OTHER        -> "unreachable"

\* str(v) for the value taken from data["followers"]; the repr of a
\* container is kept opaque
PyStr(v) ==
    CASE v.t = "null" -> "None"
      [] v.t = "bool" -> IF v.b THEN "True" ELSE "False"
      [] v.t = "num"  -> ToString(v.n)
      [] v.t = "str"  -> v.s
      [] OTHER        -> ToString(v)

\* outcomes of evaluating an expression: a value or an exception message
Val(v) == [kind |-> "val", val |-> v]
Exc(m) == [kind |-> "exc", msg |-> m]

\* data["followers"] on a truthy decoded body
subscript_followers(data) ==
    CASE data.t = "obj" -> IF "followers" \in DOMAIN data.f
                           THEN Val(data.f["followers"])
                           ELSE Exc("'followers'")
      [] data.t = "arr" -> Exc("list indices must be integers or slices, not str")
      [] data.t = "str" -> Exc("string indices must be integers, not 'str'")
      [] data.t = "num" -> Exc("'int' object is not subscriptable")
      [] data.t = "bool" -> Exc("'bool' object is not subscriptable")
      [] OTHER -> Exc("'NoneType' object is not subscriptable")

\* ------------------------------------------------------------- the server
CHESSCOM_API_BASE == "https://api.chess.com"

ToolSpec(name, description, param, paramDescription) ==
    Obj([name |-> Str(name),
         description |-> Str(description),
         inputSchema |-> Obj([
             type |-> Str("object"),
             properties |-> Obj([p \in {param} |->
                 Obj([type |-> Str("string"),
                      description |-> Str(paramDescription)])]),
             required |-> Arr(<<Str(param)>>)])])

\* self.tools after __init__: an insertion-ordered dict, kept as a sequence
\* of key/value entries
InitTools ==
    << [key |-> "echoserver",
        value |-> ToolSpec("echoserver",
                           "Reply to a message with its echo (the message itself)",
                           "msg", "Message to reply")],
       [key |-> "chesscomProfileFollowers",
        value |-> ToolSpec("chesscomProfileFollowers",
                           "Get a chess.com player followers",
                           "username", "Chess.com username")] >>

\* list(self.tools.values()); sorting the values by name instead would put
\* chesscomProfileFollowers first
dict_values_sorted(d) == [i \in 1..Len(d) |-> d[Len(d) + 1 - i].value]

dict_values(d) == [i \in 1..Len(d) |-> d[i].value]

create_response(request_id, result) ==
    Obj([jsonrpc |-> Str("2.0"), id |-> request_id, result |-> result])

create_error_response_noid(request_id, code, message) ==
    Obj([jsonrpc |-> Str("2.0"), id |-> None,
         error |-> Obj([code |-> Num(code), message |-> Str(message)])])

create_error_response(request_id, code, message) ==
    Obj([jsonrpc |-> Str("2.0"), id |-> request_id,
         error |-> Obj([code |-> Num(code), message |-> Str(message)])])

\* outcomes of the external collaborator for one GET
NoCall == [kind |-> "nocall"]
Outcomes ==
    { [kind |-> "timeout"], [kind |-> "transport"],
      [kind |-> "status"], [kind |-> "badbody"] }
    \cup { [kind |-> "ok", body |-> b] : b \in
            { Obj([followers |-> Num(42), username |-> Str("alice")]),
              Obj([followers |-> Num(0)]),
              Obj([username |-> Str("alice")]),
              Obj(EmptyDict) } }

\* make_chess_request without raise_for_status would hand back the error body
make_chess_request_nostatus(outcome) ==
    IF outcome.kind = "ok" THEN outcome.body
    ELSE IF outcome.kind = "status"
         THEN Obj([code |-> Num(0), message |-> Str("not found")])
         ELSE None

\* make_chess_request: every exception inside the try is folded into None
make_chess_request(outcome) ==
    IF outcome.kind = "ok" THEN outcome.body ELSE None

\* results of (a part of) handle_jsonrpc
Return(env) == [kind |-> "return", env |-> env]
Raise == [kind |-> "raise"]
Await(url) == [kind |-> "await", url |-> url]

TextContent(text) ==
    Obj([content |-> Arr(<<Obj([type |-> Str("text"), text |-> text])>>)])

InitializeResult ==
    Obj([protocolVersion |-> Str("2024-11-05"),
         capabilities |-> Obj([tools |-> Obj(EmptyDict)]),
         serverInfo |-> Obj([name |-> Str("echoserver"),
                             version |-> Str("1.0.0")])])

\* the initialize branch: params is not looked at
handle_initialize_strict(request_id, params) ==
    IF ~HasGet(params) THEN Exc(NoGetMsg(params))
    ELSE Return(create_response(request_id, InitializeResult))

handle_initialize(request_id, params) ==
    Return(create_response(request_id, InitializeResult))

\* the tools/list branch
handle_tools_list(request_id, self_tools) ==
    Return(create_response(request_id,
               Obj([tools |-> Arr(dict_values(self_tools))])))

\* the echoserver branch: arguments.get("msg") echoed as the text item
echo_branch_nonempty(request_id, arguments) ==
    IF ~HasGet(arguments) THEN Exc(NoGetMsg(arguments))
    ELSE IF ~Truthy(dict_get(arguments, "msg", None))
         THEN Exc("msg is required")
         ELSE Return(create_response(request_id,
                         TextContent(dict_get(arguments, "msg", None))))

echo_branch(request_id, arguments) ==
    IF ~HasGet(arguments) THEN Exc(NoGetMsg(arguments))
    ELSE Return(create_response(request_id,
                    TextContent(dict_get(arguments, "msg", None))))

\* the chesscomProfileFollowers branch up to the await of the outbound GET
lookup_branch_lenient(request_id, arguments) ==
    Await([base |-> CHESSCOM_API_BASE,
           player |-> IF HasGet(arguments)
                      THEN dict_get(arguments, "username", None) ELSE None])

lookup_branch(request_id, arguments) ==
    IF ~HasGet(arguments) THEN Exc(NoGetMsg(arguments))
    ELSE Await([base |-> CHESSCOM_API_BASE,
                player |-> dict_get(arguments, "username", None)])

\* the else branches of the two dispatches
tool_not_found(request_id) ==
    create_error_response(request_id, -32601, "tool not found")

method_not_found_invalid(request_id) ==
    create_error_response(request_id, -32600, "invalid request")

method_not_found(request_id) ==
    create_error_response(request_id, -32601, "method not found")

\* the tools/call branch: dispatch on params.get("name")
handle_tools_call_argsfirst(request_id, params) ==
    IF ~HasGet(params) THEN Exc(NoGetMsg(params))
    ELSE
    LET tool_name == dict_get(params, "name", None)
        arguments == dict_get(params, "arguments", None)
    IN
    IF ~HasGet(arguments) THEN Exc(NoGetMsg(arguments))
    ELSE IF tool_name = Str("echoserver")
    THEN echo_branch(request_id, arguments)
    ELSE IF tool_name = Str("chesscomProfileFollowers")
    THEN lookup_branch(request_id, arguments)
    ELSE Return(tool_not_found(request_id))

handle_tools_call_fallthrough(request_id, params) ==
    IF ~HasGet(params) THEN Exc(NoGetMsg(params))
    ELSE
    LET tool_name == dict_get(params, "name", None)
        arguments == dict_get(params, "arguments", None)
    IN
    IF tool_name = Str("echoserver")
    THEN echo_branch(request_id, arguments)
    ELSE lookup_branch(request_id, arguments)

handle_tools_call(request_id, params) ==
    IF ~HasGet(params) THEN Exc(NoGetMsg(params))
    ELSE
    LET tool_name == dict_get(params, "name", None)
        arguments == dict_get(params, "arguments", None)
    IN
    IF tool_name = Str("echoserver")
    THEN echo_branch(request_id, arguments)
    ELSE IF tool_name = Str("chesscomProfileFollowers")
    THEN lookup_branch(request_id, arguments)
    ELSE Return(tool_not_found(request_id))

\* body of the try block up to the await of make_chess_request
handle_try(self_tools, request) ==
    IF ~HasGet(request) THEN Exc(NoGetMsg(request))
    ELSE
    LET method == dict_get(request, "method", None)
        params == dict_get(request, "params", Obj(EmptyDict))
        request_id == dict_get(request, "id", None)
    IN
    IF method = Str("initialize")
    THEN handle_initialize(request_id, params)
    ELSE IF method = Str("tools/list")
    THEN handle_tools_list(request_id, self_tools)
    ELSE IF method = Str("tools/call")
    THEN handle_tools_call(request_id, params)
    ELSE Return(method_not_found(request_id))

\* rest of the try block, without the str() around data["followers"]
handle_try_resume_raw(request, data) ==
    LET request_id == dict_get(request, "id", None) IN
    IF ~Truthy(data)
    THEN Return(create_error_response(request_id, -1,
                                      "Chess.com user profile not found"))
    ELSE LET followers == subscript_followers(data) IN
         IF followers.kind = "exc" THEN Exc(followers.msg)
         ELSE Return(create_response(request_id, TextContent(followers.val)))

\* rest of the try block once make_chess_request has returned data
handle_try_resume(request, data) ==
    LET request_id == dict_get(request, "id", None) IN
    IF ~Truthy(data)
    THEN Return(create_error_response(request_id, -1,
                                      "Chess.com user profile not found"))
    ELSE LET followers == subscript_followers(data) IN
         IF followers.kind = "exc" THEN Exc(followers.msg)
         ELSE Return(create_response(request_id,
                         TextContent(Str(PyStr(followers.val)))))

\* except Exception as e: return create_error_response(request.get("id"), ...)
\* request.get itself raises when the request is not a dict
handle_except(request, r) ==
    IF r.kind # "exc" THEN r
    ELSE IF HasGet(request)
         THEN Return(create_error_response(dict_get(request, "id", None),
                                           -32603, r.msg))
         ELSE Raise

handle_jsonrpc(self_tools, request) ==
    handle_except(request, handle_try(self_tools, request))

handle_jsonrpc_resume(request, data) ==
    handle_except(request, handle_try_resume(request, data))

\* handle_jsonrpc assigns nothing to self
self_after_consuming(self_tools, request) ==
    IF HasGet(request) /\ dict_get(request, "method", None) = Str("tools/list")
       /\ Len(self_tools) > 0
    THEN Tail(self_tools) ELSE self_tools

self_after(self_tools, request) == self_tools

\* ---------------------------------------------------------- the transport
EOF == [kind |-> "eof"]
Blank == [kind |-> "blank"]
Garbage == [kind |-> "garbage"]
JsonLine(v) == [kind |-> "json", val |-> v]

\* json.loads(line.strip())
json_loads(l) ==
    IF l.kind = "json" THEN Val(l.val) ELSE Exc("JSONDecodeError")

\* json.dumps(response)
json_dumps(v) == JsonLine(v)

\* print(..., flush=True)
print_prepend(out, l) == <<l>> \o out

print(out, l) == Append(out, l)

\* the literal of the except branch of main
error_response_invalid ==
    Obj([jsonrpc |-> Str("2.0"), id |-> None,
         error |-> Obj([code |-> Num(-32600), message |-> Str("Parse error")])])

error_response ==
    Obj([jsonrpc |-> Str("2.0"), id |-> None,
         error |-> Obj([code |-> Num(-32700), message |-> Str("Parse error")])])

\* except branch of main: print the parse error, go round the loop
main_except_silent(out) == [output |-> out, pc |-> "read"]

main_except_break(out) ==
    [output |-> print(out, json_dumps(error_response)), pc |-> "done"]

main_except(out) ==
    [output |-> print(out, json_dumps(error_response)), pc |-> "read"]

\* the loop reads only at its top, after the previous iteration has printed
CanRead_spawned(p) == p \in {"read", "await"}

CanRead(p) == p = "read"

\* ------------------------------------------------------------- the inputs
Req(f) == JsonLine(Obj(f))
Call(name, f) == Obj([name |-> Str(name), arguments |-> Obj(f)])

Lines ==
    { Blank, Garbage,
      JsonLine(Arr(<<Num(1)>>)),
      Req([jsonrpc |-> Str("2.0"), id |-> Num(1), method |-> Str("initialize"),
           params |-> Obj(EmptyDict)]),
      Req([method |-> Str("initialize"), params |-> None]),
      Req([jsonrpc |-> Str("2.0"), id |-> Num(2), method |-> Str("tools/list")]),
      Req([id |-> Num(23), method |-> Str("tools/call"),
           params |-> Call("echoserver", [msg |-> Str("Hi")])]),
      Req([id |-> Num(3), method |-> Str("tools/call"),
           params |-> Call("echoserver", [msg |-> Str("")])]),
      Req([id |-> Num(3), method |-> Str("tools/call"),
           params |-> Call("echoserver", EmptyDict)]),
      Req([id |-> Num(3), method |-> Str("tools/call"),
           params |-> Obj([name |-> Str("echoserver"),
                           arguments |-> Str("Hi")])]),
      Req([id |-> Num(1), method |-> Str("tools/call"),
           params |-> Call("chesscomProfileFollowers",
                           [username |-> Str("alice")])]),
      Req([id |-> Num(3), method |-> Str("tools/call"),
           params |-> Obj([name |-> Str("chesscomProfileFollowers")])]),
      Req([id |-> Num(1), method |-> Str("tools/call"),
           params |-> Call("nope", [msg |-> Str("Hi")])]),
      Req([id |-> Num(2), method |-> Str("tools/call"),
           params |-> Obj([name |-> Str("nope"), arguments |-> Arr(<<>>)])]),
      Req([id |-> Num(1), method |-> Str("tools/call")]),
      Req([id |-> Num(1), method |-> Str("tools/call"), params |-> None]),
      Req([id |-> Num(1), method |-> Str("foo")]),
      Req([id |-> Str("a"), method |-> Str("foo"), params |-> Arr(<<>>)]) }

\* ------------------------------------------------------------ the session
Init ==
    /\ pc = "read"
    /\ line = EOF
    /\ inlog = <<>>
    /\ output = <<>>
    /\ via = <<>>
    /\ tools = InitTools
    /\ inflight = {}
    /\ calls = <<>>
    /\ hres = "none"

\* line = readline(): a line arrives
ReadLine ==
    /\ CanRead(pc)
    /\ Len(inlog) < MaxLines
    /\ \E l \in Lines :
          /\ line' = l
          /\ inlog' = Append(inlog, l)
    /\ pc' = "loaded"
    /\ UNCHANGED <<output, via, tools, inflight, calls, hres>>

\* line = readline(): end of input; `if not line: break`
ReadEOF ==
    /\ CanRead(pc)
    /\ line' = EOF
    /\ pc' = "done"
    /\ UNCHANGED <<inlog, output, via, tools, inflight, calls, hres>>

\* request = json.loads(...); response = await handle_jsonrpc(request), up to
\* its return or to the await of the outbound GET; print(json.dumps(response))
Dispatch ==
    /\ pc = "loaded"
    /\ LET d == json_loads(line) IN
       IF d.kind = "exc"
       THEN /\ output' = main_except(output).output
            /\ pc' = main_except(output).pc
            /\ via' = Append(via, NoCall)
            /\ UNCHANGED <<tools, inflight, calls, hres>>
       ELSE LET r == handle_jsonrpc(tools, d.val) IN
            /\ tools' = self_after(tools, d.val)
            /\ CASE r.kind = "return" ->
                      /\ output' = print(output, json_dumps(r.env))
                      /\ pc' = "read"
                      /\ via' = Append(via, NoCall)
                      /\ hres' = "return"
                      /\ UNCHANGED <<inflight, calls>>
                 [] r.kind = "raise" ->
                      /\ output' = main_except(output).output
                      /\ pc' = main_except(output).pc
                      /\ via' = Append(via, NoCall)
                      /\ hres' = "raise"
                      /\ UNCHANGED <<inflight, calls>>
                 [] r.kind = "await" ->
                      /\ inflight' = inflight \cup
                            {[idx |-> Len(inlog), request |-> d.val, url |-> r.url]}
                      /\ calls' = Append(calls, [idx |-> Len(inlog), url |-> r.url])
                      /\ pc' = "await"
                      /\ hres' = "pending"
                      /\ UNCHANGED <<output, via>>
    /\ UNCHANGED <<line, inlog>>

\* the outbound GET completes: handle_jsonrpc resumes, returns, main prints
CollaboratorReturn ==
    /\ pc = "await"
    /\ \E c \in inflight, o \in Outcomes :
          LET r == handle_jsonrpc_resume(c.request, make_chess_request(o)) IN
          /\ inflight' = inflight \ {c}
          /\ via' = Append(via, o)
          /\ IF r.kind = "return"
             THEN /\ output' = print(output, json_dumps(r.env))
                  /\ pc' = "read"
                  /\ hres' = "return"
             ELSE /\ output' = main_except(output).output
                  /\ pc' = main_except(output).pc
                  /\ hres' = "raise"
    /\ UNCHANGED <<line, inlog, tools, calls>>

Next == ReadLine \/ ReadEOF \/ Dispatch \/ CollaboratorReturn

Spec == Init /\ [][Next]_vars

\* ------------------------------------------------------- claim vocabulary
Decodes(l) == json_loads(l).kind = "val"
IsObjectRequest(l) == Decodes(l) /\ HasGet(l.val)
MethodOf(l) == dict_get(l.val, "method", None)
IdOf(l) == dict_get(l.val, "id", None)
IsError(o) == "error" \in DOMAIN o.val.f
ErrCode(o) == o.val.f.error.f.code.n
Written == 1..Len(output)

\* the lines answered so far, looked at each time the loop is back at
\* readline: output grows only on the way there
Answered == IF pc = "read" THEN 1..Len(output) ELSE {}

\* the line the except branch of main writes, spelled out
ParseErrorLine ==
    JsonLine(Obj([jsonrpc |-> Str("2.0"), id |-> None,
                  error |-> Obj([code |-> Num(-32700),
                                 message |-> Str("Parse error")])]))

\* the line a server fresh from construction writes for line l when the
\* collaborator's outcome (if it is asked at all) is o
AnswerOf(l, o) ==
    IF ~Decodes(l) THEN ParseErrorLine
    ELSE LET r == handle_jsonrpc(InitTools, l.val)
             q == IF r.kind = "await"
                  THEN handle_jsonrpc_resume(l.val, make_chess_request(o))
                  ELSE r
         IN IF q.kind = "return" THEN JsonLine(q.env) ELSE ParseErrorLine

\* C1: every line read gets exactly one output line, written before the next
\* line is read: at the top of the loop and after EOF as many lines have been
\* written as were read, and while a line is being handled exactly one fewer.
C1_OneInOneOut ==
    /\ pc \in {"read", "done"} => Len(output) = Len(inlog)
    /\ pc \in {"loaded", "await"} => Len(output) + 1 = Len(inlog)

C1_Witness ==
    /\ pc = "read" /\ Len(inlog) = 3 /\ Len(output) = 3
    /\ ~Decodes(inlog[1])
    /\ Decodes(inlog[2]) /\ ~HasGet(inlog[2].val)
    /\ via[3] # NoCall

\* C2: the loop is done only after readline returned end of input, and every
\* step that writes an output line (a response or any error) leaves the loop
\* at its reading state.
C2_TerminatesOnlyAtEOF ==
    /\ [](pc = "done" => line = EOF)
    /\ [][Len(output') # Len(output) => pc' = "read"]_vars
    /\ [][pc = "done" => pc' = "done"]_vars

C2_Witness ==
    /\ pc = "done" /\ Len(output) = 3
    /\ \A k \in Written : IsError(output[k])
    /\ {ErrCode(output[k]) : k \in Written} = {-32700, -32603, -1}

\* C3: an undecodable line is answered by the -32700 envelope with id null,
\* and a tools/list request right after an undecodable line gets the success
\* envelope a fresh server gives it, listing the two tools.
C3_MalformedLineResilience ==
    \A k \in Answered :
       /\ ~Decodes(inlog[k]) => output[k] = ParseErrorLine
       /\ (k > 1 /\ ~Decodes(inlog[k-1]) /\ IsObjectRequest(inlog[k])
             /\ MethodOf(inlog[k]) = Str("tools/list"))
          => /\ output[k] = AnswerOf(inlog[k], NoCall)
             /\ ~IsError(output[k])
             /\ output[k].val.f.id = IdOf(inlog[k])
             /\ Len(output[k].val.f.result.f.tools.items) = 2

C3_Witness ==
    /\ Len(output) = 2
    /\ ~Decodes(inlog[1])
    /\ IsObjectRequest(inlog[2]) /\ MethodOf(inlog[2]) = Str("tools/list")

\* C4: handle_jsonrpc never raises, whatever decoded JSON value it is given.
C4_HandleNeverRaises == hres # "raise"

\* C5: the -32700 envelope is written only for a line that fails to decode.
C5_ParseErrorOnlyForUndecodable ==
    \A k \in Written : output[k] = ParseErrorLine => ~Decodes(inlog[k])

\* C6: the envelope written for a request that decoded as an object has
\* jsonrpc "2.0", the request's id (null when the request has no id key) and
\* exactly one of result and error.
C6_EnvelopeInvariant ==
    \A k \in Answered :
       IsObjectRequest(inlog[k]) =>
          LET e == output[k].val IN
          /\ output[k].kind = "json" /\ e.t = "obj"
          /\ DOMAIN e.f \in {{"jsonrpc", "id", "result"}, {"jsonrpc", "id", "error"}}
          /\ e.f.jsonrpc = Str("2.0")
          /\ e.f.id = (IF "id" \in DOMAIN inlog[k].val.f
                       THEN inlog[k].val.f.id ELSE None)

C6_Witness ==
    /\ Len(output) = 3
    /\ \A k \in Written : IsObjectRequest(inlog[k]) /\ IsError(output[k])
                          /\ IdOf(inlog[k]) # None
    /\ {ErrCode(output[k]) : k \in Written} = {-32601, -32603, -1}

\* C7: the k-th output line answers the k-th input line: it carries that
\* line's id and is the envelope for that request and the outcome of its
\* own outbound call.
C7_FIFO ==
    /\ Len(output) <= Len(inlog)
    /\ \A k \in Answered :
          /\ output[k] = AnswerOf(inlog[k], via[k])
          /\ output[k].val.f.id =
                (IF IsObjectRequest(inlog[k]) THEN IdOf(inlog[k]) ELSE None)

C7_Witness ==
    /\ Len(output) = 3
    /\ via[1] # NoCall /\ via[2] = NoCall /\ via[3] = NoCall
    /\ output[1].val.f.id = Num(1)
    /\ output[2].val.f.id = Num(2)
    /\ output[3].val.f.id = Num(3)

\* C8: at most one request is in flight: at most one outbound call is
\* pending, none is pending when the loop is about to read or has just read,
\* a line is read only when every earlier line has been answered, and an
\* outbound call starts only when none is pending.
C8_OneInFlight ==
    /\ [](Cardinality(inflight) <= 1)
    /\ [](pc \in {"read", "loaded", "done"} => inflight = {})
    /\ [][Len(inlog') # Len(inlog)
            => (inflight = {} /\ Len(output) = Len(inlog))]_vars
    /\ [][Len(calls') # Len(calls) => inflight = {}]_vars

C8_Witness ==
    /\ pc = "await" /\ Cardinality(inflight) = 1
    /\ Len(calls) = 2 /\ Len(output) = 1

\* C9: the envelope depends only on the request and on the outcome of its
\* own outbound call: equal lines with equal outcomes get equal envelopes
\* wherever they stand in the session, and a tools/list or tools/call that
\* follows an initialize gets the envelope a fresh server gives it.
C9_Stateless ==
    /\ \A j, k \in Answered :
          (inlog[j] = inlog[k] /\ via[j] = via[k]) => output[j] = output[k]
    /\ \A j, k \in Answered :
          (j < k /\ IsObjectRequest(inlog[j])
             /\ MethodOf(inlog[j]) = Str("initialize")
             /\ IsObjectRequest(inlog[k])
             /\ MethodOf(inlog[k]) \in {Str("tools/list"), Str("tools/call")})
          => output[k] = AnswerOf(inlog[k], via[k])

C9_Witness ==
    /\ Len(output) = 3
    /\ IsObjectRequest(inlog[1]) /\ MethodOf(inlog[1]) = Str("tools/list")
    /\ IsObjectRequest(inlog[2]) /\ MethodOf(inlog[2]) = Str("initialize")
    /\ inlog[3] = inlog[1]

\* C10: an echoserver call whose arguments object has no msg key is answered
\* by an error envelope with code -32603.
C10_EchoMissingMsgIsError ==
    \A k \in Written :
       (/\ IsObjectRequest(inlog[k])
        /\ MethodOf(inlog[k]) = Str("tools/call")
        /\ HasGet(dict_get(inlog[k].val, "params", Obj(EmptyDict)))
        /\ LET params == dict_get(inlog[k].val, "params", Obj(EmptyDict)) IN
           /\ dict_get(params, "name", None) = Str("echoserver")
           /\ HasGet(dict_get(params, "arguments", None))
           /\ "msg" \notin DOMAIN dict_get(params, "arguments", None).f)
       => (IsError(output[k]) /\ ErrCode(output[k]) = -32603)

\* --------------------------------------------- claim vocabulary, tool calls
IsToolsCall(l) ==
    /\ IsObjectRequest(l)
    /\ MethodOf(l) = Str("tools/call")
    /\ HasGet(dict_get(l.val, "params", Obj(EmptyDict)))
ParamsOf(l) == dict_get(l.val, "params", Obj(EmptyDict))
ToolNameOf(l) == dict_get(ParamsOf(l), "name", None)
ArgsOf(l) == dict_get(ParamsOf(l), "arguments", None)
InCatalog(name) == name \in {Str("echoserver"), Str("chesscomProfileFollowers")}
IsLookupCall(l) ==
    /\ IsToolsCall(l)
    /\ ToolNameOf(l) = Str("chesscomProfileFollowers")
    /\ HasGet(ArgsOf(l))
FailureKinds == {"timeout", "transport", "status", "badbody"}

\* envelopes spelled out
ErrorLine(id, code, message) ==
    JsonLine(Obj([jsonrpc |-> Str("2.0"), id |-> id,
                  error |-> Obj([code |-> Num(code), message |-> Str(message)])]))
SuccessLine(id, result) ==
    JsonLine(Obj([jsonrpc |-> Str("2.0"), id |-> id, result |-> result]))
OneText(text) ==
    Obj([content |-> Arr(<<Obj([type |-> Str("text"), text |-> text])>>)])

\* C11: a lookup whose collaborator returns an object without a followers
\* field (the empty object included) is answered by an error envelope with
\* code -32603.
C11_FollowersAbsentIsInternalError ==
    \A k \in Written :
       (/\ IsLookupCall(inlog[k])
        /\ via[k].kind = "ok"
        /\ via[k].body.t = "obj"
        /\ "followers" \notin DOMAIN via[k].body.f)
       => (IsError(output[k]) /\ ErrCode(output[k]) = -32603)

\* C12: a lookup whose collaborator fails by timeout, transport error,
\* non-2xx status or malformed body is answered by one and the same error
\* envelope: code -1, "Chess.com user profile not found", the request's id.
C12_FailureFolding ==
    \A k \in Answered :
       (IsLookupCall(inlog[k]) /\ via[k].kind \in FailureKinds)
       => output[k] = ErrorLine(IdOf(inlog[k]), -1,
                                "Chess.com user profile not found")

C12_Witness ==
    /\ Len(output) = 3
    /\ \A k \in Written : IsLookupCall(inlog[k]) /\ via[k].kind \in FailureKinds
    /\ Cardinality({via[k].kind : k \in Written}) = 3
    /\ output[1] = output[2] /\ output[2] = output[3]

\* C13: a tools/call naming a catalog tool whose params has no arguments
\* key, or whose arguments is not an object, is answered by an error envelope
\* with code -32603 and the request's id, and makes no outbound call.
C13_MalformedArguments ==
    /\ \A k \in Answered :
          (IsToolsCall(inlog[k]) /\ InCatalog(ToolNameOf(inlog[k]))
             /\ ~HasGet(ArgsOf(inlog[k])))
          => /\ IsError(output[k]) /\ ErrCode(output[k]) = -32603
             /\ output[k].val.f.id = IdOf(inlog[k])
             /\ via[k] = NoCall
    /\ \A i \in 1..Len(calls) : HasGet(ArgsOf(inlog[calls[i].idx]))

C13_Witness ==
    /\ Len(output) = 2 /\ calls = <<>>
    /\ IsToolsCall(inlog[1]) /\ ToolNameOf(inlog[1]) = Str("echoserver")
    /\ "arguments" \in DOMAIN ParamsOf(inlog[1]).f /\ ~HasGet(ArgsOf(inlog[1]))
    /\ IsToolsCall(inlog[2])
    /\ ToolNameOf(inlog[2]) = Str("chesscomProfileFollowers")
    /\ "arguments" \notin DOMAIN ParamsOf(inlog[2]).f

\* C14: a tools/call whose params names no catalog tool (or has no name) is
\* answered by -32601 "tool not found", whatever arguments is, also when
\* arguments is missing or not an object.
C14_UnknownTool ==
    \A k \in Answered :
       (IsToolsCall(inlog[k]) /\ ~InCatalog(ToolNameOf(inlog[k])))
       => output[k] = ErrorLine(IdOf(inlog[k]), -32601, "tool not found")

C14_Witness ==
    /\ Len(output) = 3
    /\ \A k \in Written : IsToolsCall(inlog[k]) /\ ~InCatalog(ToolNameOf(inlog[k]))
    /\ HasGet(ArgsOf(inlog[1]))
    /\ "arguments" \in DOMAIN ParamsOf(inlog[2]).f /\ ~HasGet(ArgsOf(inlog[2]))
    /\ "name" \notin DOMAIN ParamsOf(inlog[3]).f
    /\ "arguments" \notin DOMAIN ParamsOf(inlog[3]).f

\* C15: a request object whose method is none of initialize, tools/list,
\* tools/call is answered by -32601 "method not found" whatever its params,
\* and two such answers differ in nothing but the id.
C15_UnknownMethod ==
    LET Unknown(l) == /\ IsObjectRequest(l)
                      /\ MethodOf(l) \notin {Str("initialize"), Str("tools/list"),
                                             Str("tools/call")}
    IN
    /\ \A k \in Answered :
          Unknown(inlog[k])
          => output[k] = ErrorLine(IdOf(inlog[k]), -32601, "method not found")
    /\ \A j, k \in Answered :
          (Unknown(inlog[j]) /\ Unknown(inlog[k]))
          => [output[j].val.f EXCEPT !.id = None]
               = [output[k].val.f EXCEPT !.id = None]

C15_Witness ==
    /\ Len(output) = 3
    /\ \A k \in Written : IsObjectRequest(inlog[k]) /\ MethodOf(inlog[k]) = Str("foo")
    /\ inlog[1] = inlog[3] /\ inlog[1] # inlog[2]
    /\ IdOf(inlog[1]) # IdOf(inlog[2])

\* C16: the registry never changes, and every tools/list request, whatever
\* came before it, is answered by the catalog echoserver (required: msg)
\* then chesscomProfileFollowers (required: username).
C16_CatalogStable ==
    /\ Len(tools) = 2
    /\ tools[1].key = "echoserver" /\ tools[2].key = "chesscomProfileFollowers"
    /\ \A k \in Answered :
          (IsObjectRequest(inlog[k]) /\ MethodOf(inlog[k]) = Str("tools/list"))
          => /\ ~IsError(output[k])
             /\ output[k].val.f.id = IdOf(inlog[k])
             /\ DOMAIN output[k].val.f.result.f = {"tools"}
             /\ LET listed == output[k].val.f.result.f.tools.items IN
                /\ Len(listed) = 2
                /\ listed[1].f.name = Str("echoserver")
                /\ listed[1].f.inputSchema.f.required = Arr(<<Str("msg")>>)
                /\ listed[2].f.name = Str("chesscomProfileFollowers")
                /\ listed[2].f.inputSchema.f.required = Arr(<<Str("username")>>)

C16_Witness ==
    /\ Len(output) = 3
    /\ ~Decodes(inlog[1])
    /\ IsLookupCall(inlog[2]) /\ via[2].kind \in FailureKinds
    /\ IsObjectRequest(inlog[3]) /\ MethodOf(inlog[3]) = Str("tools/list")

\* C17: an echoserver call with arguments {msg: s}, s a string (the empty
\* string included), is answered by a success envelope whose content is the
\* single item {type: "text", text: s}.
C17_Echo ==
    \A k \in Answered :
       (/\ IsToolsCall(inlog[k])
        /\ ToolNameOf(inlog[k]) = Str("echoserver")
        /\ HasGet(ArgsOf(inlog[k]))
        /\ "msg" \in DOMAIN ArgsOf(inlog[k]).f
        /\ ArgsOf(inlog[k]).f.msg.t = "str")
       => output[k] = SuccessLine(IdOf(inlog[k]), OneText(ArgsOf(inlog[k]).f.msg))

C17_Witness ==
    /\ Len(output) = 2
    /\ output[1] = SuccessLine(Num(3), OneText(Str("")))
    /\ output[2] = SuccessLine(Num(23), OneText(Str("Hi")))

\* C18: a lookup whose collaborator returns an object with followers = n is
\* answered by a success envelope whose content is the single text item
\* holding n in decimal.
C18_LookupSuccess ==
    \A k \in Answered :
       (/\ IsLookupCall(inlog[k])
        /\ via[k].kind = "ok"
        /\ via[k].body.t = "obj"
        /\ "followers" \in DOMAIN via[k].body.f
        /\ via[k].body.f.followers.t = "num")
       => LET n == via[k].body.f.followers.n IN
          /\ output[k] = SuccessLine(IdOf(inlog[k]), OneText(Str(ToString(n))))
          /\ n = 42 => output[k].val.f.result.f.content.items[1].f.text = Str("42")
          /\ n = 0 => output[k].val.f.result.f.content.items[1].f.text = Str("0")

C18_Witness ==
    /\ Len(output) = 2
    /\ IsLookupCall(inlog[1]) /\ IsLookupCall(inlog[2])
    /\ via[1] = [kind |-> "ok",
                 body |-> Obj([followers |-> Num(42), username |-> Str("alice")])]
    /\ via[2] = [kind |-> "ok", body |-> Obj([followers |-> Num(0)])]

\* C19: a request object with method initialize, whatever its id and params,
\* is answered by a success envelope with the request's id and the fixed
\* protocolVersion, capabilities and serverInfo.
C19_Initialize ==
    \A k \in Answered :
       (IsObjectRequest(inlog[k]) /\ MethodOf(inlog[k]) = Str("initialize"))
       => output[k] = SuccessLine(IdOf(inlog[k]),
             Obj([protocolVersion |-> Str("2024-11-05"),
                  capabilities |-> Obj([tools |-> Obj(EmptyDict)]),
                  serverInfo |-> Obj([name |-> Str("echoserver"),
                                      version |-> Str("1.0.0")])]))

C19_Witness ==
    /\ Len(output) = 2
    /\ IsObjectRequest(inlog[1]) /\ MethodOf(inlog[1]) = Str("initialize")
    /\ "id" \notin DOMAIN inlog[1].val.f /\ inlog[1].val.f.params = None
    /\ IsObjectRequest(inlog[2]) /\ MethodOf(inlog[2]) = Str("initialize")
    /\ IdOf(inlog[2]) = Num(1)

\* C20: an outbound call is made only for a tools/call request naming
\* chesscomProfileFollowers with an object as arguments, at most once per
\* request; nothing else is answered with the help of the collaborator.
C20_OutboundFrame ==
    /\ \A i \in 1..Len(calls) :
          /\ calls[i].idx \in 1..Len(inlog)
          /\ IsLookupCall(inlog[calls[i].idx])
    /\ \A i, j \in 1..Len(calls) : calls[i].idx = calls[j].idx => i = j
    /\ \A k \in Answered : via[k] # NoCall => IsLookupCall(inlog[k])

C20_Witness ==
    /\ Len(output) = 3 /\ Len(calls) = 1 /\ calls[1].idx = 2
    /\ IsToolsCall(inlog[1]) /\ ToolNameOf(inlog[1]) = Str("echoserver")
    /\ IsToolsCall(inlog[3]) /\ ~InCatalog(ToolNameOf(inlog[3]))

====
